---- MODULE Spec2Model ----
(***************************************************************************)
(* The session channel client of the frontend: WebSocketService            *)
(* (src/frontend/src/services/api.ts, lines 138-277) and the ChatInterface  *)
(* component that subscribes to it                                          *)
(* (src/frontend/src/components/ChatInterface.tsx, lines 27-132).           *)
(*                                                                         *)
(* One WebSocketService instance is modelled.  Every browser WebSocket it  *)
(* creates is an entry of socks; the callbacks the service installs on a   *)
(* socket (onopen, onmessage, onclose, onerror) are the transport actions,  *)
(* and each runs to completion (single JavaScript event loop).              *)
(***************************************************************************)
EXTENDS Integers, Sequences, FiniteSets, TLC

(* ---- bounds of the model ---- *)
MaxSockets == 4       \* sockets one run of Spec creates
MaxSocketsR == 7      \* sockets one run of SpecReconnect creates
MaxSocketsS == 2      \* sockets one run of SpecSend creates
MaxSocketsC == 2      \* sockets one run of SpecChat creates
MaxSocketsG == 2      \* sockets one run of SpecRegistry creates
MaxContent == 2       \* distinct contents passed to sendMessage in SpecSend
MaxContentC == 1      \* distinct contents typed into ChatInterface in SpecChat
MaxWire == 2          \* frames SpecCalls lets ping and requestMessageHistory write
MaxSocketsK == 2      \* sockets one run of SpecCalls creates
MaxSocketsB == 6      \* sockets one run of SpecBudget creates
MaxSocketsW == 2      \* sockets one run of SpecWire creates
MaxFrames == 2        \* inbound frames the transport delivers
MaxMsg == 2           \* distinct messages the service sends

(* ---- program constants ---- *)
maxReconnectAttempts == 5
reconnectDelay == 1000

NoSocket == 0

\* WebSocketMessage.type
Tags ==
  {"connection_established", "message", "message_received", "typing",
   "typing_stop", "error", "message_history", "pong"}
Wildcard == "*"
NoHandler == "none"

VARIABLES
  ws,                 \* this.ws: index into socks, or NoSocket for null
  isConnecting,       \* this.isConnecting
  reconnectAttempts,  \* this.reconnectAttempts
  messageHandlers,    \* this.messageHandlers: key -> handler, NoHandler when absent
  socks,              \* every WebSocket created so far, with the promise of its connect()
  timers,             \* pending setTimeout callbacks, in scheduling order: their delays
  wire,               \* frames written with WebSocket.send, in order
  messages,           \* ChatInterface state `messages` (the timeline)
  uiConnected,        \* ChatInterface state `isConnected`
  mounted,            \* ChatInterface effect: "no", "yes", "gone" (cleanup has run)
  invoked,            \* handler invocations made by the last step, in order
  last,               \* the operation or callback that ran last
  autoConnects,       \* number of connect() calls made by reconnect timers
  scheduledSinceOpen, \* reconnect timers scheduled since the last transport open
  closedByCaller,     \* disconnect() was called and the caller has not called connect() since
  notOpenSends,       \* contents passed to sendMessage while the socket was not open
  delivered,          \* number of inbound frames delivered so far
  subscribed,         \* what the caller asked of the subscriber map: per key the handler
                      \* of its latest onMessage, and the keys whose handler was replaced
  dispatchLog         \* SpecOrder: message events and handler calls, in the order they ran

svc == <<ws, isConnecting, reconnectAttempts, messageHandlers>>
chat == <<messages, uiConnected, mounted>>
ghost == <<autoConnects, scheduledSinceOpen, closedByCaller, notOpenSends, delivered,
           subscribed, dispatchLog>>
vars == <<svc, socks, timers, wire, chat, invoked, last, ghost>>

Socks == 1..Len(socks)

\* WebSocket.readyState of a socket.  ABORTING is close() called before the
\* connection was established, ERRORED is the error event delivered and the
\* close event of the same task still to come: the browser reports CLOSING
\* and CLOSED for them.
ReadyState(s) ==
  CASE socks[s].rs = "ABORTING" -> "CLOSING"
    [] socks[s].rs = "ERRORED"  -> "CLOSED"
    [] OTHER                    -> socks[s].rs

\* this.ws && this.ws.readyState === WebSocket.OPEN
WsOpen == ws # NoSocket /\ ReadyState(ws) = "OPEN"

isConnectedHandleOnly == ws # NoSocket

\* isConnected()
isConnected == WsOpen

NoFrame == [json |-> FALSE, type |-> "", message |-> 0, hasMessages |-> FALSE, messages |-> << >>]
Op(name, s, r) == [op |-> name, sock |-> s, res |-> r, frame |-> NoFrame]

Init ==
  /\ ws = NoSocket
  /\ isConnecting = FALSE
  /\ reconnectAttempts = 0
  /\ messageHandlers = [k \in Tags \cup {Wildcard} |-> NoHandler]
  /\ socks = << >>
  /\ timers = << >>
  /\ wire = << >>
  /\ messages = << >>
  /\ uiConnected = FALSE
  /\ mounted = "no"
  /\ invoked = << >>
  /\ last = Op("new", 0, "")
  /\ autoConnects = 0
  /\ scheduledSinceOpen = 0
  /\ closedByCaller = FALSE
  /\ notOpenSends = {}
  /\ delivered = 0
  /\ subscribed = [latest |-> [k \in Tags \cup {Wildcard} |-> NoHandler], replaced |-> {}]
  /\ dispatchLog = << >>

(***************************************************************************)
(* WebSocketService: connection lifecycle                                   *)
(***************************************************************************)

\* The early return of connect(): resolve() without creating a socket.
ConnectIsNoop == isConnecting \/ WsOpen

\* connect(), called by `by` ("caller" or "timer"); at most `bound` sockets.
DoConnect(by, bound) ==
  IF ConnectIsNoop
    THEN /\ last' = Op("connect", 0, "resolved")
         /\ UNCHANGED <<ws, isConnecting, socks>>
    ELSE /\ Len(socks) < bound
         /\ isConnecting' = TRUE
         /\ socks' = Append(socks, [rs |-> "CONNECTING", promise |-> "pending", origin |-> by])
         /\ ws' = Len(socks) + 1
         /\ last' = Op("connect", Len(socks) + 1, "pending")

\* The browser fires the error event and the close event of a failing socket
\* in one task.  Between the two only the reactions of the promise that the
\* error rejected can run: code of the caller, when the caller's connect()
\* created the socket (the timer's own reaction is console.error, and so is
\* ChatInterface's).
InErrorTask == \E s \in Socks : socks[s].rs = "ERRORED"
CallerMayRun ==
  \A s \in Socks : socks[s].rs = "ERRORED" =>
      socks[s].promise = "rejected" /\ socks[s].origin = "caller"

ConnectBy(bound) ==
  /\ CallerMayRun
  /\ DoConnect("caller", bound)
  /\ closedByCaller' = FALSE
  /\ invoked' = << >>
  /\ UNCHANGED <<reconnectAttempts, messageHandlers, timers, wire, chat,
                 autoConnects, scheduledSinceOpen, notOpenSends, delivered, subscribed, dispatchLog>>

OnOpenNeverResolves(s) ==
  /\ isConnecting' = FALSE
  /\ reconnectAttempts' = 0
  /\ socks' = [socks EXCEPT ![s].rs = "OPEN"]

OnOpenKeepsCounter(s) ==
  /\ isConnecting' = FALSE
  /\ UNCHANGED reconnectAttempts
  /\ socks' = [socks EXCEPT ![s].rs = "OPEN",
                            ![s].promise = IF @ = "pending" THEN "resolved" ELSE @]

\* ws.onopen
OnOpen(s) ==
  /\ isConnecting' = FALSE
  /\ reconnectAttempts' = 0
  /\ socks' = [socks EXCEPT ![s].rs = "OPEN",
                            ![s].promise = IF @ = "pending" THEN "resolved" ELSE @]

TransportOpen(s) ==
  /\ ~InErrorTask
  /\ socks[s].rs = "CONNECTING"
  /\ OnOpen(s)
  /\ last' = Op("open", s, "")
  /\ scheduledSinceOpen' = 0
  /\ invoked' = << >>
  /\ UNCHANGED <<ws, messageHandlers, timers, wire, chat,
                 autoConnects, closedByCaller, notOpenSends, delivered, subscribed, dispatchLog>>

OnErrorKeepsPending(s) ==
  /\ isConnecting' = FALSE
  /\ socks' = [socks EXCEPT ![s].rs = "ERRORED"]

\* ws.onerror
OnError(s) ==
  /\ isConnecting' = FALSE
  /\ socks' = [socks EXCEPT ![s].rs = "ERRORED",
                            ![s].promise = IF @ = "pending" THEN "rejected" ELSE @]

\* The browser fails a connection: the error event, with readyState CLOSED.
TransportError(s) ==
  /\ ~InErrorTask
  /\ socks[s].rs \in {"CONNECTING", "OPEN", "ABORTING"}
  /\ OnError(s)
  /\ last' = Op("error", s, "")
  /\ invoked' = << >>
  /\ UNCHANGED <<ws, reconnectAttempts, messageHandlers, timers, wire, chat, ghost>>

MayReconnectOffByOne == reconnectAttempts <= maxReconnectAttempts

\* The reconnect branch of ws.onclose is taken
MayReconnect == reconnectAttempts < maxReconnectAttempts

RetryDelayDoubling(attempts) == reconnectDelay * (2 ^ (attempts - 1))

\* The delay of the timer ws.onclose sets, from the incremented counter
RetryDelay(attempts) == reconnectDelay * attempts

OnCloseCountsFirst(s) ==
  /\ isConnecting' = FALSE
  /\ ws' = NoSocket
  /\ reconnectAttempts' = reconnectAttempts + 1
  /\ IF MayReconnect
       THEN timers' = Append(timers, RetryDelay(reconnectAttempts + 1))
       ELSE UNCHANGED timers

\* ws.onclose
OnClose(s) ==
  /\ isConnecting' = FALSE
  /\ ws' = NoSocket
  /\ IF MayReconnect
       THEN /\ reconnectAttempts' = reconnectAttempts + 1
            /\ timers' = Append(timers, RetryDelay(reconnectAttempts + 1))
       ELSE UNCHANGED <<reconnectAttempts, timers>>

\* The close event: of a socket the peer closes, of one close() was called
\* on, and after the error event of a failed one.
TransportClose(s) ==
  /\ socks[s].rs \in {"OPEN", "CLOSING", "ERRORED"}
  /\ InErrorTask => socks[s].rs = "ERRORED"
  /\ OnClose(s)
  /\ socks' = [socks EXCEPT ![s].rs = "CLOSED"]
  /\ last' = Op("close", s, IF Len(timers') > Len(timers) THEN "scheduled" ELSE "")
  /\ scheduledSinceOpen' = scheduledSinceOpen + (Len(timers') - Len(timers))
  /\ invoked' = << >>
  /\ UNCHANGED <<messageHandlers, wire, chat,
                 autoConnects, closedByCaller, notOpenSends, delivered, subscribed, dispatchLog>>

\* A timer set earlier with a delay that is not longer expires first.
TimerDue(i) == \A j \in 1..(i - 1) : timers[j] > timers[i]

RemoveAt(q, i) == [k \in 1..(Len(q) - 1) |-> IF k < i THEN q[k] ELSE q[k + 1]]

\* The setTimeout callback of ws.onclose: this.connect().catch(console.error)
TimerFiresBy(i, bound) ==
  /\ ~InErrorTask
  /\ TimerDue(i)
  /\ DoConnect("timer", bound)
  /\ timers' = RemoveAt(timers, i)
  /\ autoConnects' = autoConnects + 1
  /\ invoked' = << >>
  /\ UNCHANGED <<reconnectAttempts, messageHandlers, wire, chat,
                 scheduledSinceOpen, closedByCaller, notOpenSends, delivered, subscribed, dispatchLog>>

\* WebSocket.close() of the browser, on a socket in state rs
CloseCall(rs) ==
  CASE rs = "CONNECTING" -> "ABORTING"
    [] rs = "OPEN"       -> "CLOSING"
    [] OTHER             -> rs

\* disconnect()
DoDisconnectClosesAll ==
  /\ socks' = [s \in DOMAIN socks |-> [socks[s] EXCEPT !.rs = CloseCall(@)]]
  /\ ws' = NoSocket
  /\ messageHandlers' = [k \in DOMAIN messageHandlers |-> NoHandler]
  /\ subscribed' = [subscribed EXCEPT !.latest = [k \in DOMAIN @ |-> NoHandler]]

DoDisconnectKeepsHandlers ==
  /\ IF ws # NoSocket
       THEN /\ socks' = [socks EXCEPT ![ws].rs = CloseCall(@)]
            /\ ws' = NoSocket
       ELSE UNCHANGED <<ws, socks>>
  /\ UNCHANGED messageHandlers
  /\ subscribed' = [subscribed EXCEPT !.latest = [k \in DOMAIN @ |-> NoHandler]]

DoDisconnect ==
  /\ IF ws # NoSocket
       THEN /\ socks' = [socks EXCEPT ![ws].rs = CloseCall(@)]
            /\ ws' = NoSocket
       ELSE UNCHANGED <<ws, socks>>
  /\ messageHandlers' = [k \in DOMAIN messageHandlers |-> NoHandler]
  /\ subscribed' = [subscribed EXCEPT !.latest = [k \in DOMAIN @ |-> NoHandler]]

Disconnect ==
  /\ CallerMayRun
  /\ DoDisconnect
  /\ last' = Op("disconnect", ws, "")
  /\ closedByCaller' = TRUE
  /\ invoked' = << >>
  /\ UNCHANGED <<isConnecting, reconnectAttempts, timers, wire, chat,
                 autoConnects, scheduledSinceOpen, notOpenSends, delivered, dispatchLog>>

(***************************************************************************)
(* WebSocketService: outbound frames and the subscriber map                 *)
(***************************************************************************)

NotConnectedNullOnly == ws = NoSocket

\* The guard of sendMessage, requestMessageHistory and ping
NotConnected == ~WsOpen

OutFrameAsMessage(type, content) == [sock |-> ws, type |-> "message", content |-> content]

OutFrame(type, content) == [sock |-> ws, type |-> type, content |-> content]

\* The socket of the current handle really is open (readyState of the browser)
ChannelOpen == ws # NoSocket /\ socks[ws].rs = "OPEN"

Sent(c) == \E i \in 1..Len(wire) : wire[i].type = "message" /\ wire[i].content = c

\* sendMessage(content); metadata, provider and timestamp of the frame are
\* not modelled.  Every call passes a content no earlier call passed.
DoSendMessage(c) ==
  /\ c \notin notOpenSends /\ ~Sent(c)
  /\ IF NotConnected
       THEN /\ last' = Op("send", ws, "not_connected")
            /\ UNCHANGED wire
       ELSE /\ wire' = Append(wire, OutFrame("message", c))
            /\ last' = Op("send", ws, "sent")
  /\ notOpenSends' = IF ChannelOpen THEN notOpenSends ELSE notOpenSends \cup {c}
  /\ invoked' = << >>

SendMessage(c) ==
  /\ CallerMayRun
  /\ DoSendMessage(c)
  /\ UNCHANGED <<svc, socks, timers, chat,
                 autoConnects, scheduledSinceOpen, closedByCaller, delivered, subscribed, dispatchLog>>

\* The caller's view after onMessage(t, h): h is the handler of t, and t had
\* another handler before
AskedOn(t, h) ==
  [latest |-> [subscribed.latest EXCEPT ![t] = h],
   replaced |-> IF subscribed.latest[t] \in {NoHandler, h}
                  THEN subscribed.replaced
                  ELSE subscribed.replaced \cup {t}]

SetKeepsFirst(t, h) ==
  [messageHandlers EXCEPT ![t] = IF @ = NoHandler THEN h ELSE @]

\* this.messageHandlers.set(type, handler)
Set(t, h) == [messageHandlers EXCEPT ![t] = h]

\* onMessage(type, handler)
OnMessage(t, h) ==
  /\ CallerMayRun
  /\ messageHandlers' = Set(t, h)
  /\ subscribed' = AskedOn(t, h)
  /\ last' = Op("onMessage", 0, t)
  /\ invoked' = << >>
  /\ UNCHANGED <<ws, isConnecting, reconnectAttempts, socks, timers, wire, chat,
                 autoConnects, scheduledSinceOpen, closedByCaller, notOpenSends,
                 delivered, dispatchLog>>

\* offMessage(type)
OffMessage(t) ==
  /\ CallerMayRun
  /\ messageHandlers' = [messageHandlers EXCEPT ![t] = NoHandler]
  /\ subscribed' = [subscribed EXCEPT !.latest[t] = NoHandler]
  /\ last' = Op("offMessage", 0, t)
  /\ invoked' = << >>
  /\ UNCHANGED <<ws, isConnecting, reconnectAttempts, socks, timers, wire, chat,
                 autoConnects, scheduledSinceOpen, closedByCaller, notOpenSends,
                 delivered, dispatchLog>>

(***************************************************************************)
(* Inbound frames and dispatch                                              *)
(***************************************************************************)

\* A frame that JSON.parse rejects
Garbage == [NoFrame EXCEPT !.type = "not json"]

\* A parsed frame {type, message?}: message 0 is the field left out
Frame(t, m) ==
  [json |-> TRUE, type |-> t, message |-> m, hasMessages |-> FALSE, messages |-> << >>]

\* A parsed frame {type: 'message_history', messages}
HistoryFrame(l) ==
  [json |-> TRUE, type |-> "message_history", message |-> 0,
   hasMessages |-> TRUE, messages |-> l]

\* Lists of distinct messages the service may send as a history
MsgLists ==
  {l \in UNION {[1..n -> 1..MaxMsg] : n \in 0..MaxMsg} :
     \A i, j \in DOMAIN l : i # j => l[i] # l[j]}

\* Message objects of the timeline
ServerMessage(m) == [type |-> "user", content |-> m, agent_name |-> ""]
WelcomeMessage(m) == [type |-> "assistant", content |-> m, agent_name |-> "System"]
ErrorMessage == [type |-> "error", content |-> 0, agent_name |-> ""]

\* What a handler may change while handleMessage runs
Effects == [wire |-> wire, messages |-> messages, uiConnected |-> uiConnected,
            invoked |-> << >>, threw |-> FALSE]

RequestHistoryInAsPing(st) ==
  IF NotConnected THEN st
  ELSE [st EXCEPT !.wire = Append(@, OutFrame("ping", 0))]

\* requestMessageHistory(), on the effects so far
RequestHistoryIn(st) ==
  IF NotConnected THEN st
  ELSE [st EXCEPT !.wire = Append(@, OutFrame("get_history", 0))]

UIEstablishedNoHistory(data, st) ==
  [st EXCEPT !.uiConnected = TRUE,
             !.messages = IF data.message # 0 THEN <<WelcomeMessage(data.message)>> ELSE @]

\* ChatInterface: the handler of 'connection_established'
UIEstablished(data, st) ==
  RequestHistoryIn(
    [st EXCEPT !.uiConnected = TRUE,
               !.messages = IF data.message # 0 THEN <<WelcomeMessage(data.message)>> ELSE @])

\* ChatInterface: the handlers of 'message' and 'message_received'
UIMessage(data, st) ==
  IF data.message # 0
    THEN [st EXCEPT !.messages = Append(@, ServerMessage(data.message))]
    ELSE st

UIHistoryAppends(data, st) ==
  IF data.hasMessages
    THEN [st EXCEPT !.messages = @ \o [i \in DOMAIN data.messages |-> ServerMessage(data.messages[i])]]
    ELSE st

\* ChatInterface: the handler of 'message_history'
UIHistory(data, st) ==
  IF data.hasMessages
    THEN [st EXCEPT !.messages = [i \in DOMAIN data.messages |-> ServerMessage(data.messages[i])]]
    ELSE st

\* ChatInterface: the handler of 'error'
UIError(data, st) == [st EXCEPT !.messages = Append(@, ErrorMessage)]

\* The ChatInterface handler registered under `tag`; the typing state that
\* 'typing' and 'typing_stop' set is not modelled.
UIHandler(tag, data, st) ==
  CASE tag = "connection_established"          -> UIEstablished(data, st)
    [] tag \in {"message", "message_received"} -> UIMessage(data, st)
    [] tag = "message_history"                 -> UIHistory(data, st)
    [] tag = "error"                           -> UIError(data, st)
    [] OTHER                                   -> st

\* The call handler(data) of the handler h found under key `tag`: "ui" is the
\* ChatInterface closure, "h1" and "h2" return normally, "bad" throws.
RunHandler(h, tag, data, st) ==
  LET called == [st EXCEPT !.invoked = Append(@, [tag |-> tag, h |-> h])] IN
  CASE h = "ui"  -> UIHandler(tag, data, called)
    [] h = "bad" -> [called EXCEPT !.threw = TRUE]
    [] OTHER     -> called

\* this.messageHandlers.get(key)
HandlerFor(key) ==
  IF key \in DOMAIN messageHandlers THEN messageHandlers[key] ELSE NoHandler

\* handleMessage(data)
HandleMessage(data, st) ==
  LET handler == HandlerFor(data.type)
      st1 == IF handler # NoHandler THEN RunHandler(handler, data.type, data, st) ELSE st
      globalHandler == HandlerFor(Wildcard)
  IN IF st1.threw THEN st1
     ELSE IF globalHandler # NoHandler THEN RunHandler(globalHandler, Wildcard, data, st1)
     ELSE st1

OnMessageEventMerging(s, f) ==
  IF ~f.json \/ (last.op = "message" /\ last.frame = f)
    THEN /\ last' = [Op("message", s, IF f.json THEN "merged" ELSE "parse_error")
                       EXCEPT !.frame = f]
         /\ invoked' = << >>
         /\ UNCHANGED <<wire, messages, uiConnected>>
    ELSE LET r == HandleMessage(f, Effects) IN
         /\ wire' = r.wire
         /\ messages' = r.messages
         /\ uiConnected' = r.uiConnected
         /\ invoked' = r.invoked
         /\ last' = [Op("message", s, IF r.threw THEN "handler_threw" ELSE "dispatched")
                       EXCEPT !.frame = f]

OnMessageEventUnparsed(s, f) ==
  LET r == HandleMessage(f, Effects) IN
  /\ wire' = r.wire
  /\ messages' = r.messages
  /\ uiConnected' = r.uiConnected
  /\ invoked' = r.invoked
  /\ last' = [Op("message", s, IF r.threw THEN "handler_threw" ELSE "dispatched")
                EXCEPT !.frame = f]

\* ws.onmessage of socket s, for the frame f
OnMessageEvent(s, f) ==
  IF ~f.json
    THEN /\ last' = [Op("message", s, "parse_error") EXCEPT !.frame = f]
         /\ invoked' = << >>
         /\ UNCHANGED <<wire, messages, uiConnected>>
    ELSE LET r == HandleMessage(f, Effects) IN
         /\ wire' = r.wire
         /\ messages' = r.messages
         /\ uiConnected' = r.uiConnected
         /\ invoked' = r.invoked
         /\ last' = [Op("message", s, IF r.threw THEN "handler_threw" ELSE "dispatched")
                       EXCEPT !.frame = f]

\* The browser delivers a message event on an open socket.
DeliverEvent(s, f) ==
  /\ ~InErrorTask
  /\ socks[s].rs = "OPEN"
  /\ delivered < MaxFrames
  /\ OnMessageEvent(s, f)
  /\ delivered' = delivered + 1
  /\ UNCHANGED <<svc, socks, timers, mounted,
                 autoConnects, scheduledSinceOpen, closedByCaller, notOpenSends,
                 subscribed>>

Deliver(s, f) == DeliverEvent(s, f) /\ UNCHANGED dispatchLog

\* The entries a delivery adds to the log: the message event, with the
\* handler then registered for its type, and the handler calls it made
Arrival(n, f) ==
  [n |-> n, kind |-> "event", tag |-> f.type,
   h |-> IF f.json THEN HandlerFor(f.type) ELSE NoHandler]
Calls(n, inv) == [i \in DOMAIN inv |-> [n |-> n, kind |-> "call", tag |-> inv[i].tag, h |-> inv[i].h]]

DeliverLogged(s, f) ==
  /\ DeliverEvent(s, f)
  /\ dispatchLog' = (dispatchLog \o <<Arrival(delivered + 1, f)>>) \o Calls(delivered + 1, invoked')

\* requestMessageHistory(), called from outside a handler
RequestMessageHistory ==
  /\ CallerMayRun
  /\ NotConnected \/ Len(wire) < MaxWire
  /\ wire' = RequestHistoryIn(Effects).wire
  /\ last' = Op("get_history", ws, IF NotConnected THEN "not_connected" ELSE "sent")
  /\ invoked' = << >>
  /\ UNCHANGED <<svc, socks, timers, chat, ghost>>

DoPingUnguarded ==
  /\ wire' = Append(wire, OutFrame("ping", 0))
  /\ last' = Op("ping", ws, "sent")

\* ping()
DoPing ==
  IF NotConnected
    THEN /\ last' = Op("ping", ws, "ignored")
         /\ UNCHANGED wire
    ELSE /\ wire' = Append(wire, OutFrame("ping", 0))
         /\ last' = Op("ping", ws, "sent")

Ping ==
  /\ CallerMayRun
  /\ NotConnected \/ Len(wire) < MaxWire
  /\ DoPing
  /\ invoked' = << >>
  /\ UNCHANGED <<svc, socks, timers, chat, ghost>>

\* isConnected(), called by the caller
IsConnectedCall ==
  /\ CallerMayRun
  /\ last' = Op("isConnected", ws, IF isConnected THEN "true" ELSE "false")
  /\ invoked' = << >>
  /\ UNCHANGED <<svc, socks, timers, wire, chat, ghost>>

(***************************************************************************)
(* ChatInterface                                                            *)
(***************************************************************************)

\* The keys ChatInterface registers a handler for
UITags ==
  {"connection_established", "message", "message_received", "message_history",
   "typing", "typing_stop", "error"}

\* The effect of the component: the onMessage calls, then ws.connect()
Mount(bound) ==
  /\ mounted = "no"
  /\ mounted' = "yes"
  /\ messageHandlers' = [k \in DOMAIN messageHandlers |->
                           IF k \in UITags THEN "ui" ELSE messageHandlers[k]]
  /\ subscribed' = [subscribed EXCEPT !.latest = [k \in DOMAIN @ |->
                                                   IF k \in UITags THEN "ui" ELSE @[k]]]
  /\ DoConnect("caller", bound)
  /\ closedByCaller' = FALSE
  /\ invoked' = << >>
  /\ UNCHANGED <<reconnectAttempts, timers, wire, messages, uiConnected,
                 autoConnects, scheduledSinceOpen, notOpenSends, delivered, dispatchLog>>

\* The cleanup of the effect: ws.disconnect()
Unmount ==
  /\ mounted = "yes"
  /\ ~InErrorTask
  /\ mounted' = "gone"
  /\ DoDisconnect
  /\ last' = Op("disconnect", ws, "")
  /\ closedByCaller' = TRUE
  /\ invoked' = << >>
  /\ UNCHANGED <<isConnecting, reconnectAttempts, timers, wire, messages, uiConnected,
                 autoConnects, scheduledSinceOpen, notOpenSends, delivered, dispatchLog>>

\* handleSendMessage with a non-blank input c
HandleSendMessage(c) ==
  /\ mounted = "yes"
  /\ ~InErrorTask
  /\ uiConnected
  /\ DoSendMessage(c)
  /\ UNCHANGED <<svc, socks, timers, chat,
                 autoConnects, scheduledSinceOpen, closedByCaller, delivered, subscribed, dispatchLog>>

(***************************************************************************)
(* Spec: the connection lifecycle under any calls of connect() and          *)
(* disconnect(), transport callbacks and timer expiries                     *)
(***************************************************************************)
Connect == ConnectBy(MaxSockets)
TimerFires == \E i \in 1..Len(timers) : TimerFiresBy(i, MaxSockets)
Opened == \E s \in Socks : TransportOpen(s)
Errored == \E s \in Socks : TransportError(s)
Closed == \E s \in Socks : TransportClose(s)

Next ==
  \/ Connect
  \/ Disconnect
  \/ Opened
  \/ Errored
  \/ Closed
  \/ TimerFires

Spec == Init /\ [][Next]_vars

(***************************************************************************)
(* SpecReconnect: one connect() of the caller, then transport callbacks    *)
(* and timer expiries only                                                  *)
(***************************************************************************)
ConnectOnce == socks = << >> /\ ConnectBy(MaxSocketsR)
TimerFiresR == \E i \in 1..Len(timers) : TimerFiresBy(i, MaxSocketsR)

NextReconnect ==
  \/ ConnectOnce
  \/ Opened
  \/ Errored
  \/ Closed
  \/ TimerFiresR

SpecReconnect == Init /\ [][NextReconnect]_vars

(***************************************************************************)
(* SpecSend: the lifecycle with sendMessage and a subscriber for `error`    *)
(***************************************************************************)
ConnectS == ConnectBy(MaxSocketsS)
TimerFiresS == \E i \in 1..Len(timers) : TimerFiresBy(i, MaxSocketsS)
Send == \E c \in 1..MaxContent : SendMessage(c)
Subscribe == messageHandlers["error"] = NoHandler /\ OnMessage("error", "h1")

NextSend ==
  \/ ConnectS
  \/ Disconnect
  \/ Opened
  \/ Errored
  \/ Closed
  \/ TimerFiresS
  \/ Send
  \/ Subscribe

SpecSend == Init /\ [][NextSend]_vars

(***************************************************************************)
(* SpecChat: the service as ChatInterface drives it                         *)
(***************************************************************************)
\* The frames the service may deliver: the `message` field is enumerated for
\* the types whose handler reads it.
MessageTags == {"connection_established", "message", "message_received"}
ChatFrames ==
  {Garbage}
    \cup {Frame(t, 0) : t \in Tags \cup {"unknown"}}
    \cup {Frame(t, m) : t \in MessageTags, m \in 1..MaxMsg}
    \cup {HistoryFrame(l) : l \in MsgLists}

MountC == Mount(MaxSocketsC)
TimerFiresC == \E i \in 1..Len(timers) : TimerFiresBy(i, MaxSocketsC)
DeliverC == \E s \in Socks, f \in ChatFrames : Deliver(s, f)
UISend == \E c \in 1..MaxContentC : HandleSendMessage(c)

NextChat ==
  \/ MountC
  \/ Unmount
  \/ UISend
  \/ Opened
  \/ Errored
  \/ Closed
  \/ TimerFiresC
  \/ DeliverC

SpecChat == Init /\ [][NextChat]_vars

(***************************************************************************)
(* SpecRegistry: the subscriber map under any onMessage and offMessage      *)
(***************************************************************************)
RegTags == {"message", Wildcard}
TestHandlers == {"h1", "h2", "bad"}
RegFrames == {Garbage} \cup {Frame(t, 0) : t \in {"message", "typing", "unknown"}}

ConnectG == ConnectBy(MaxSocketsG)
TimerFiresG == \E i \in 1..Len(timers) : TimerFiresBy(i, MaxSocketsG)
Register == \E t \in RegTags, h \in TestHandlers : OnMessage(t, h)
Unregister == \E t \in RegTags : OffMessage(t)
DeliverG == \E s \in Socks, f \in RegFrames : Deliver(s, f)

NextRegistry ==
  \/ ConnectG
  \/ Disconnect
  \/ Opened
  \/ Errored
  \/ Closed
  \/ TimerFiresG
  \/ Register
  \/ Unregister
  \/ DeliverG

SpecRegistry == Init /\ [][NextRegistry]_vars

(***************************************************************************)
(* SpecOrder: one socket, subscribers that come and go, and a log of the    *)
(* message events and of the handler calls they make                        *)
(***************************************************************************)
OrderFrames == {Garbage} \cup {Frame(t, 0) : t \in {"message", "typing"}}
OrderTags == {"message", Wildcard}
OrderHandlers == {"h1", "bad"}

RegisterO == \E t \in OrderTags, h \in OrderHandlers : OnMessage(t, h)
UnregisterO == \E t \in OrderTags : OffMessage(t)
DeliverO == \E s \in Socks, f \in OrderFrames : DeliverLogged(s, f)

NextOrder ==
  \/ ConnectOnce
  \/ Opened
  \/ RegisterO
  \/ UnregisterO
  \/ DeliverO

SpecOrder == Init /\ [][NextOrder]_vars

(***************************************************************************)
(* SpecCalls: the lifecycle with ping, requestMessageHistory and            *)
(* isConnected called at any time, and a subscriber for `error`             *)
(***************************************************************************)
ConnectK == ConnectBy(MaxSocketsK)
TimerFiresK == \E i \in 1..Len(timers) : TimerFiresBy(i, MaxSocketsK)

NextCalls ==
  \/ ConnectK
  \/ Disconnect
  \/ Opened
  \/ Errored
  \/ Closed
  \/ TimerFiresK
  \/ Subscribe
  \/ Ping
  \/ RequestMessageHistory
  \/ IsConnectedCall

SpecCalls == Init /\ [][NextCalls]_vars

(***************************************************************************)
(* SpecRejection: as SpecReconnect, and the caller may call connect() again *)
(* from the rejection handler of its first connect()                        *)
(***************************************************************************)
ConnectInRejection == InErrorTask /\ ConnectBy(MaxSocketsR)

NextRejection ==
  \/ ConnectOnce
  \/ ConnectInRejection
  \/ Opened
  \/ Errored
  \/ Closed
  \/ TimerFiresR

SpecRejection == Init /\ [][NextRejection]_vars

(***************************************************************************)
(* SpecWire: the lifecycle with the three calls that write frames           *)
(***************************************************************************)
ConnectW == ConnectBy(MaxSocketsW)
TimerFiresW == \E i \in 1..Len(timers) : TimerFiresBy(i, MaxSocketsW)
SendW == (NotConnected \/ Len(wire) < MaxWire) /\ \E c \in 1..MaxContentC : SendMessage(c)

NextWire ==
  \/ ConnectW
  \/ Disconnect
  \/ Opened
  \/ Errored
  \/ Closed
  \/ TimerFiresW
  \/ SendW
  \/ Ping
  \/ RequestMessageHistory

SpecWire == Init /\ [][NextWire]_vars

(***************************************************************************)
(* SpecBudget: as SpecReconnect, with every other call of the service made  *)
(* at any time; the wire is followed up to its first frame                  *)
(***************************************************************************)
FirstFrame == NotConnected \/ wire = << >>
ConnectB == socks = << >> /\ ConnectBy(MaxSocketsB)
TimerFiresB == \E i \in 1..Len(timers) : TimerFiresBy(i, MaxSocketsB)
SendB == FirstFrame /\ SendMessage(1)
PingB == FirstFrame /\ Ping
RequestHistoryB == FirstFrame /\ RequestMessageHistory
Unsubscribe == messageHandlers["error"] # NoHandler /\ OffMessage("error")

NextBudget ==
  \/ ConnectB
  \/ Disconnect
  \/ Opened
  \/ Errored
  \/ Closed
  \/ TimerFiresB
  \/ SendB
  \/ PingB
  \/ RequestHistoryB
  \/ Subscribe
  \/ Unsubscribe

SpecBudget == Init /\ [][NextBudget]_vars

(***************************************************************************)
(* SpecSettle: the connection lifecycle under fair delivery of the          *)
(* transport callbacks: a socket that is connecting, or was closed while    *)
(* connecting, gets its open or its error event, and the close event that   *)
(* follows an error event in the same task is delivered                     *)
(***************************************************************************)
Settles(s) ==
  /\ s \in Socks
  /\ socks[s].rs \in {"CONNECTING", "ABORTING"}
  /\ (TransportOpen(s) \/ TransportError(s))

ClosesAfterError(s) ==
  /\ s \in Socks
  /\ socks[s].rs = "ERRORED"
  /\ TransportClose(s)

NextSettle ==
  \/ ConnectK
  \/ Disconnect
  \/ Opened
  \/ Errored
  \/ Closed
  \/ TimerFiresK

FairDelivery ==
  \A s \in 1..MaxSocketsK : WF_vars(Settles(s)) /\ WF_vars(ClosesAfterError(s))

SpecSettle == Init /\ [][NextSettle]_vars /\ FairDelivery

(***************************************************************************)
(* Claims                                                                   *)
(***************************************************************************)
Live == {s \in Socks : socks[s].rs \in {"CONNECTING", "OPEN"}}

\* The socket of the current handle is still connecting
ChannelConnecting == ws # NoSocket /\ socks[ws].rs = "CONNECTING"

\* C1: at most one socket the instance created is connecting or open.
C1_AtMostOneLiveSocket == Cardinality(Live) <= 1

\* C2: connect() called while the channel is Open or Connecting creates no
\* socket, resolves at once and leaves the handle and the counter as they were.
C2_ConnectWhileLiveIsNoop ==
  [][(last'.op = "connect" /\ last' # last /\ (ChannelOpen \/ ChannelConnecting))
       => /\ socks' = socks
          /\ ws' = ws
          /\ reconnectAttempts' = reconnectAttempts
          /\ last'.res = "resolved"]_vars

\* C3: after disconnect() and until the caller calls connect() again, the
\* channel stays Closed: the handle stays null and no connect() of a timer
\* creates a socket.
C3_DisconnectStaysClosed ==
  closedByCaller => /\ ws = NoSocket
                    /\ ~(last.op = "connect" /\ last.sock # NoSocket)

\* C4 as stated: the connect() calls made by reconnect timers never number
\* more than maxAttempts.
C4_AutoConnectsBounded == autoConnects <= maxReconnectAttempts

\* C4 as amended: the reconnect timers scheduled since the last transport
\* open never number more than maxAttempts.
C4_ScheduledSinceOpenBounded == scheduledSinceOpen <= maxReconnectAttempts

\* C4 witness: a close that finds the budget used up and schedules nothing.
C4_Witness ==
  /\ last.op = "close" /\ last.res = ""
  /\ scheduledSinceOpen = maxReconnectAttempts
  /\ autoConnects = maxReconnectAttempts

\* C5: sendMessage while not connected reaches the `error` subscriber once.
C5_SendNotOpenDispatchesError ==
  (last.op = "send" /\ last.res = "not_connected" /\ messageHandlers["error"] # NoHandler)
    => /\ Len(invoked) = 1
       /\ invoked[1].tag = "error"

\* C6: a content passed to sendMessage while the socket was not open is on
\* no frame ever written.
C6_NotOpenSendNeverOnWire ==
  \A i \in 1..Len(wire) : wire[i].type = "message" => wire[i].content \notin notOpenSends

\* C6 witness: a content was refused, the channel reconnected and opened, and
\* another content went out on the new socket.
C6_Witness ==
  /\ notOpenSends # {}
  /\ ChannelOpen
  /\ autoConnects > 0
  /\ last.op = "send" /\ last.res = "sent"

\* get_history frames written to socket s
HistoryRequests(s) ==
  Cardinality({i \in 1..Len(wire) : wire[i].type = "get_history" /\ wire[i].sock = s})

EstablishedFrames == {Frame("connection_established", m) : m \in 0..MaxMsg}

C8_HistoryReplacesTimeline ==
  (/\ last.op = "message" /\ last.frame.json
   /\ last.frame.type = "message_history" /\ last.frame.hasMessages
   /\ messageHandlers["message_history"] = "ui")
    => messages = [i \in DOMAIN last.frame.messages |-> ServerMessage(last.frame.messages[i])]

\* C8 witness: a history of two messages arrives after the welcome message
\* of connection_established filled the timeline.
C8_Witness ==
  /\ last.op = "message" /\ last.frame = HistoryFrame(<<2, 1>>)
  /\ uiConnected /\ delivered = 2 /\ wire # << >>
  /\ messages = <<ServerMessage(2), ServerMessage(1)>>

\* C9: with a handler under `message` and another under `*`, a `message`
\* event calls each once, the tag handler first.
C9_TagThenWildcardOnce ==
  (/\ last.op = "message" /\ last.frame.json /\ last.frame.type = "message"
   /\ messageHandlers["message"] # NoHandler
   /\ messageHandlers[Wildcard] # NoHandler
   /\ messageHandlers["message"] # messageHandlers[Wildcard])
    => invoked = <<[tag |-> "message", h |-> messageHandlers["message"]],
                   [tag |-> Wildcard, h |-> messageHandlers[Wildcard]]>>

\* C10: when the handler of the event's tag throws, the wildcard handler,
\* when registered, is still called for the event.
C10_WildcardRunsAfterThrow ==
  (/\ last.op = "message" /\ last.res = "handler_threw"
   /\ invoked # << >> /\ invoked[1].tag = last.frame.type
   /\ messageHandlers[Wildcard] # NoHandler)
    => \E i \in 1..Len(invoked) : invoked[i].tag = Wildcard

\* The calls of the last delivery made under the event's own tag
TagCalls == SelectSeq(invoked, LAMBDA c : c.tag = last.frame.type)

\* C11: a tag has at most one handler: an event of tag t calls, under t, the
\* handler of the latest onMessage(t, ...) once and no earlier one, and calls
\* none under t after offMessage(t).
C11_LatestHandlerOnly ==
  (/\ last.op = "message" /\ last.frame.json
   /\ last.frame.type \in DOMAIN subscribed.latest)
    => TagCalls = IF subscribed.latest[last.frame.type] = NoHandler
                    THEN << >>
                    ELSE <<[tag |-> last.frame.type,
                            h |-> subscribed.latest[last.frame.type]]>>

C11_Witness ==
  /\ last.op = "message" /\ last.frame.type = "message"
  /\ "message" \in subscribed.replaced
  /\ TagCalls = <<[tag |-> "message", h |-> "h2"]>>

\* C12: the subscriber map is left as it is by the open, error and close of
\* a socket and by the connect() of the reconnect timer, and it is empty
\* right after disconnect().
C12_MapSurvivesTransport ==
  [][/\ (last'.op \in {"open", "error", "close"} \/ autoConnects' # autoConnects)
          => messageHandlers' = messageHandlers
     /\ last'.op = "disconnect"
          => \A k \in DOMAIN messageHandlers' : messageHandlers'[k] = NoHandler]_vars

C12_Witness ==
  /\ last.op = "message" /\ socks[last.sock].origin = "timer"
  /\ invoked # << >>

\* C13: a frame that does not parse calls no handler, not the wildcard
\* handler either, raises nothing out of the message callback (the parse
\* failure is caught), and leaves the socket handle, the sockets, the
\* connecting flag, the reconnect counter, the timers and the subscriber map
\* as they were.
C13_MalformedFrameIsDropped ==
  [][(last'.op = "message" /\ ~last'.frame.json /\ delivered' # delivered)
       => /\ invoked' = << >>
          /\ last'.res = "parse_error"
          /\ UNCHANGED <<svc, socks, timers, wire, chat>>]_vars

C13_Witness ==
  /\ last.op = "message" /\ last.frame = Garbage /\ last.res = "parse_error"
  /\ messageHandlers[Wildcard] # NoHandler
  /\ ws = last.sock /\ isConnected

\* C14: a frame that parses but carries a tag outside the recognised tags is
\* dropped: no handler is called for it, the wildcard handler included.
C14_UnknownTagCallsNobody ==
  (last.op = "message" /\ last.frame.json /\ last.frame.type \notin Tags)
    => invoked = << >>

\* C15: events are dispatched in the order the transport delivers the
\* frames, one frame at a time: in the log the calls made for a frame follow
\* its message event and precede the message event of the next frame, they
\* are calls for that frame (under its tag or the wildcard), and a frame
\* whose tag has a handler is not held back or merged with another: its
\* handler is called right after its message event.
C15_DispatchInDeliveryOrder ==
  /\ \A i, j \in DOMAIN dispatchLog : i < j => dispatchLog[i].n <= dispatchLog[j].n
  /\ \A i \in DOMAIN dispatchLog :
       dispatchLog[i].kind = "call" =>
         \E k \in 1..(i - 1) :
           /\ dispatchLog[k].kind = "event" /\ dispatchLog[k].n = dispatchLog[i].n
           /\ dispatchLog[i].tag \in {dispatchLog[k].tag, Wildcard}
  /\ \A k \in DOMAIN dispatchLog :
       (dispatchLog[k].kind = "event" /\ dispatchLog[k].h # NoHandler) =>
         /\ k + 1 \in DOMAIN dispatchLog
         /\ dispatchLog[k + 1] = [dispatchLog[k] EXCEPT !.kind = "call"]
  /\ \A n \in 1..delivered :
       Cardinality({k \in DOMAIN dispatchLog :
                      dispatchLog[k].kind = "event" /\ dispatchLog[k].n = n}) = 1

\* two frames of the same tag, each with its two calls, in delivery order
C15_Witness ==
  /\ Len(dispatchLog) = 6
  /\ [i \in 1..6 |-> dispatchLog[i].n] = <<1, 1, 1, 2, 2, 2>>
  /\ [i \in 1..6 |-> dispatchLog[i].kind] = <<"event", "call", "call", "event", "call", "call">>
  /\ dispatchLog[1].tag = "message" /\ dispatchLog[4].tag = "message"

\* C16: isConnected() answers true exactly when the socket handle is set
\* and the socket it names is open: false while that socket is connecting,
\* closing or closed, and false with no handle.
C16_IsConnectedIffOpen ==
  last.op = "isConnected" =>
    (last.res = "true" <=> (ws # NoSocket /\ socks[ws].rs = "OPEN"))

C16_Witness ==
  /\ last.op = "isConnected" /\ last.res = "true"
  /\ \E s \in Socks : s # ws /\ socks[s].rs = "CLOSED"

\* C17, as the specification states it: disconnect() called with no socket
\* handle changes no state of the service.
C17_DisconnectWhenClosedIsNoop ==
  [][(last'.op = "disconnect" /\ ws = NoSocket)
       => UNCHANGED <<svc, socks, timers, wire, chat>>]_vars

\* C17, amended: disconnect() called with no socket handle closes no socket
\* and changes nothing but the subscriber map, which it empties; a
\* disconnect() that follows a disconnect() changes nothing at all.
C17_DisconnectIdempotent ==
  [][/\ (last'.op = "disconnect" /\ ws = NoSocket)
          => /\ UNCHANGED <<ws, isConnecting, reconnectAttempts, socks, timers, wire, chat>>
             /\ \A k \in DOMAIN messageHandlers' : messageHandlers'[k] = NoHandler
     /\ (last.op = "disconnect" /\ last'.op = "disconnect")
          => UNCHANGED <<svc, socks, timers, wire, chat>>]_vars

C17_Witness ==
  /\ last.op = "disconnect" /\ last.sock = NoSocket
  /\ socks # << >> /\ timers # << >>

\* C18: the timeline only grows at its end: a `message` or
\* `message_received` event that carries a message appends that message,
\* and an event other than message_history leaves the entries already in the
\* timeline where they are.
C18_TimelineAppendOnly ==
  [][/\ (/\ delivered' = delivered + 1 /\ last'.frame.json
         /\ last'.frame.type \in {"message", "message_received"}
         /\ last'.frame.message # 0
         /\ messageHandlers[last'.frame.type] = "ui")
          => messages' = Append(messages, ServerMessage(last'.frame.message))
     /\ ~(last'.op = "message" /\ last'.frame.type = "message_history")
          => /\ Len(messages') >= Len(messages)
             /\ SubSeq(messages', 1, Len(messages)) = messages]_vars

C20_PingNotOpenIgnored ==
  [][(last'.op = "ping" /\ ~ChannelOpen)
       => /\ last'.res = "ignored"
          /\ invoked' = << >>
          /\ UNCHANGED <<svc, socks, timers, wire, chat>>]_vars

C20_Witness ==
  /\ last.op = "ping" /\ last.res = "ignored"
  /\ ws # NoSocket /\ socks[ws].rs = "CONNECTING"
  /\ messageHandlers["error"] # NoHandler

\* C21: the timer that a transport close sets after raising the counter to n
\* has the delay reconnectDelay * n, with 1 <= n <= maxReconnectAttempts: five
\* closes in a row set 1000, 2000, 3000, 4000 and 5000 ms, in that order.
C21_DelayIsLinear ==
  (last.op = "close" /\ last.res = "scheduled")
    => /\ reconnectAttempts \in 1..maxReconnectAttempts
       /\ timers # << >>
       /\ timers[Len(timers)] = reconnectDelay * reconnectAttempts

\* the fifth close in a row: four timers fired before, the fifth waits 5000 ms
C21_Witness ==
  /\ last.op = "close" /\ last.res = "scheduled"
  /\ reconnectAttempts = 5 /\ scheduledSinceOpen = 5 /\ autoConnects = 4
  /\ timers = <<5000>>

\* C22: the open of a socket sets the reconnect counter to 0 and resolves the
\* promise of the connect() that created the socket; the counter is the
\* number of reconnects scheduled since the last open, so after an open the
\* whole budget is available again.
C22_OpenResetsBudget ==
  /\ last.op = "open"
       => /\ reconnectAttempts = 0
          /\ socks[last.sock].rs = "OPEN"
          /\ socks[last.sock].promise = "resolved"
  /\ reconnectAttempts = scheduledSinceOpen

\* a socket the third retry created opens
C22_Witness ==
  /\ last.op = "open" /\ socks[last.sock].origin = "timer"
  /\ autoConnects = 3 /\ reconnectAttempts = 0

\* C23: the error event of a socket rejects the promise of its connect()
\* when that is still pending, sets no timer and leaves the reconnect counter
\* as it is; only a close event sets a reconnect timer.
C23_ErrorRejectsAndSchedulesNothing ==
  [][/\ (last'.op = "error" /\ socks' # socks)
          => /\ socks[last'.sock].promise = "pending"
                  => socks'[last'.sock].promise = "rejected"
             /\ timers' = timers
             /\ reconnectAttempts' = reconnectAttempts
     /\ Len(timers') > Len(timers) => last'.op = "close"]_vars

\* the error of a connecting socket, with a retry of an earlier close pending
C23_Witness ==
  /\ last.op = "error" /\ socks[last.sock].promise = "rejected"
  /\ timers # << >> /\ reconnectAttempts = 1

\* C24: after a close event that finds the reconnect counter at
\* maxReconnectAttempts the handle is null, no timer was set, and nothing is
\* left that opens a connection by itself: no timer is pending and no socket
\* of the instance is connecting or open.
C24_ExhaustedIsQuiescent ==
  (last.op = "close" /\ last.res = "" /\ reconnectAttempts = maxReconnectAttempts)
    => /\ ws = NoSocket
       /\ timers = << >>
       /\ Live = {}

\* The type of the frame each writing call sends
WrittenBy(op) ==
  CASE op = "send"        -> "message"
    [] op = "get_history" -> "get_history"
    [] op = "ping"        -> "ping"
    [] OTHER              -> "none"

\* C25: a frame is written only while the channel is open, by sendMessage,
\* requestMessageHistory or ping, to the current socket and with the type of
\* that call; each of these calls writes exactly one frame when the channel
\* is open; no frame of another type is ever written.
C25_OneTypedFramePerCall ==
  [][/\ wire' # wire
          => /\ ChannelOpen
             /\ Len(wire') = Len(wire) + 1
             /\ SubSeq(wire', 1, Len(wire)) = wire
             /\ wire'[Len(wire')].sock = ws
             /\ wire'[Len(wire')].type = WrittenBy(last'.op)
     /\ (ChannelOpen /\ last'.op \in {"send", "get_history", "ping"})
          => Len(wire') = Len(wire) + 1
     /\ \A i \in 1..Len(wire') : wire'[i].type \in {"message", "get_history", "ping"}]_vars

\* a get_history frame and a ping frame on the second socket of the channel
C25_Witness ==
  /\ last.op = "ping" /\ last.res = "sent"
  /\ Len(wire) = 2 /\ wire[1].type = "get_history" /\ wire[2].type = "ping"
  /\ wire[1].sock = 2 /\ wire[2].sock = 2

\* C26: the close event of a socket that is not the current handle (the
\* handle is null or names a newer socket) leaves the handle and the
\* connecting flag as they are and sets no reconnect timer.
C26_StaleCloseIsIgnored ==
  [][(last'.op = "close" /\ socks' # socks /\ last'.sock # ws)
       => /\ ws' = ws
          /\ isConnecting' = isConnecting
          /\ timers' = timers]_vars

\* C27: while the ChatInterface is mounted, its connected flag is true only
\* when isConnected() of the service is true.
C27_UIFlagImpliesConnected ==
  (mounted = "yes" /\ uiConnected) => isConnected

\* C29: the reconnect counter stays within 0..maxReconnectAttempts; a close
\* event raises it by one when it is below the maximum, an open event sets it
\* to 0, and no call of the service changes it.
C29_CounterChangedByCloseAndOpenOnly ==
  [][/\ reconnectAttempts' \in 0..maxReconnectAttempts
     /\ reconnectAttempts' # reconnectAttempts
          => \/ /\ last'.op = "close"
                /\ reconnectAttempts < maxReconnectAttempts
                /\ reconnectAttempts' = reconnectAttempts + 1
             \/ /\ last'.op = "open"
                /\ reconnectAttempts' = 0
     /\ last'.op \in {"connect", "disconnect", "send", "ping", "get_history",
                      "onMessage", "offMessage"}
          => reconnectAttempts' = reconnectAttempts]_vars

\* a close event finds the counter at the maximum and leaves it there
C29_Witness ==
  /\ last.op = "close" /\ last.res = ""
  /\ reconnectAttempts = maxReconnectAttempts
  /\ closedByCaller

\* C30: at most one reconnect timer is pending at any time.
C30_AtMostOneTimerPending == Len(timers) <= 1

====
